---- MODULE Spec2Model ----
(***************************************************************************)
(* A model of generic/tclIndexObj.c: the "index" object type, which looks  *)
(* a keyword up in a table of strings and caches the index of the entry    *)
(* it denotes in the object's internal representation.                     *)
(*                                                                         *)
(* C strings are sequences of one-character strings; the terminating NUL   *)
(* is the position after the last character.  Memory is a flat array of    *)
(* pointer-sized slots, each holding a string or the NULL pointer; a table *)
(* is an address of that array and an offset between entries, counted in   *)
(* slots (a char pointer takes one slot).                                  *)
(***************************************************************************)
EXTENDS Integers, Sequences, FiniteSets, TLC

VARIABLES
    mem,          \* the slots holding the keyword tables (never written)
    live,         \* live[o]: o is an allocated Tcl_Obj
    bytes,        \* objPtr->bytes: the string form, or NULL
    typePtr,      \* objPtr->typePtr: "none", "other" or "index"
    internalRep,  \* objPtr->internalRep.otherValuePtr: address of an IndexRep, or 0
    heap,         \* the IndexRep records ckalloc handed out, FREE when not allocated
    result,       \* the interpreter's object result (the error channel)
    ret,          \* the last call: its arguments, return code, *indexPtr, slots read, IndexRep records allocated
    typed         \* typed[o]: the string o was created from (history, read by no operation)

vars == <<mem, live, bytes, typePtr, internalRep, heap, result, ret, typed>>

----------------------------------------------------------------------------
(* Bounds of the model. *)

Objs == {"v", "w"}
Addrs == 1 .. (Cardinality(Objs) + 1)

----------------------------------------------------------------------------
(* Values. *)

NULL == <<"NULL">>
FREE == [free |-> TRUE]
NUL == "\\0"

IndexType == "index"

\* The size of a char pointer, in slots.
SizeofCharPtr == 1

\* The string a literal of the source stands for.
LitAmbiguous == <<"a","m","b","i","g","u","o","u","s"," ">>
LitBad == <<"b","a","d"," ">>
LitQuote == <<" ","\"">>
LitMustBe == <<"\"",":"," ","m","u","s","t"," ","b","e"," ">>
LitCommaOr == <<",", " ", "o", "r", " ">>
LitOr == <<" ", "o", "r", " ">>
LitComma == <<",", " ">>
LitCantConvert == <<"c","a","n","'","t"," ","c","o","n","v","e","r","t"," ",
                    "v","a","l","u","e"," ","t","o"," ","i","n","d","e","x"," ",
                    "e","x","c","e","p","t"," ","v","i","a"," ",
                    "T","c","l","_","G","e","t","I","n","d","e","x","F","r","o","m","O","b","j",
                    " ","A","P","I">>

----------------------------------------------------------------------------
(* Table access. *)

\* The slot at address a; a read outside the modelled memory has no defined value.
InMem(a) == a \in DOMAIN mem

\* STRING_AT(table, offset, index)
AddrOf(table, offset, index) == table + offset * index
STRING_AT(table, offset, index) == mem[AddrOf(table, offset, index)]

\* NEXT_ENTRY(table, offset)
NEXT_ENTRY(table, offset) == AddrOf(table, offset, 1)

\* EXPAND_OF(indexRep)
EXPAND_OF(indexRep) == STRING_AT(indexRep.tablePtr, indexRep.offset, indexRep.index)

\* The character p[k] of a C string, NUL at its end.
CharAt(s, k) == IF k <= Len(s) THEN s[k] ELSE NUL

----------------------------------------------------------------------------
(* Tcl_GetIndexFromObjStruct, lines 197-241: the lookup of a key in a table. *)

\* The inner loop of the scan (lines 217-223) on one entry, from character k:
\* "exact" when both strings end together, "abbrev" when the key ends first,
\* "none" at the first difference otherwise.
RECURSIVE CompareKey(_, _, _)
CompareKey(key, entry, k) ==
    IF CharAt(key, k) = CharAt(entry, k)
    THEN IF CharAt(key, k) = NUL THEN "exact" ELSE CompareKey(key, entry, k + 1)
    ELSE IF CharAt(key, k) = NUL THEN "abbrev" ELSE "none"

\* A scan that stops at the first abbreviation it meets.
RECURSIVE ScanTable_StopsAtAbbrev(_, _, _, _, _)
ScanTable_StopsAtAbbrev(key, entryPtr, offset, i, acc) ==
    IF ~InMem(entryPtr)
    THEN [acc EXCEPT !.oob = TRUE]
    ELSE LET seen == [acc EXCEPT !.reads = @ \cup {entryPtr}]
         IN  IF mem[entryPtr] = NULL
             THEN seen
             ELSE LET c == CompareKey(key, mem[entryPtr], 1)
                  IN  IF c = "exact"
                      THEN [seen EXCEPT !.exact = TRUE, !.index = i]
                      ELSE IF c = "abbrev"
                      THEN [seen EXCEPT !.numAbbrev = @ + 1, !.index = i]
                      ELSE ScanTable_StopsAtAbbrev(key, NEXT_ENTRY(entryPtr, offset),
                                                   offset, i + 1, seen)

\* The outer loop (lines 215-235) from entry i at address entryPtr.  acc holds
\* index, numAbbrev, the slots read so far, and oob: a slot outside the
\* modelled memory was read.
RECURSIVE ScanTable(_, _, _, _, _)
ScanTable(key, entryPtr, offset, i, acc) ==
    IF ~InMem(entryPtr)
    THEN [acc EXCEPT !.oob = TRUE]
    ELSE LET seen == [acc EXCEPT !.reads = @ \cup {entryPtr}]
         IN  IF mem[entryPtr] = NULL
             THEN seen
             ELSE LET c == CompareKey(key, mem[entryPtr], 1)
                  IN  IF c = "exact"
                      THEN [seen EXCEPT !.exact = TRUE, !.index = i]
                      ELSE ScanTable(key, NEXT_ENTRY(entryPtr, offset), offset, i + 1,
                                     IF c = "abbrev"
                                     THEN [seen EXCEPT !.numAbbrev = @ + 1, !.index = i]
                                     ELSE seen)

\* The parts of the lookup its variants share.
ScanStart == [exact |-> FALSE, index |-> -1, numAbbrev |-> 0, reads |-> {}, oob |-> FALSE]
LookupWith(scan, ok) ==
    [ok |-> ok, index |-> scan.index, numAbbrev |-> scan.numAbbrev,
     reads |-> scan.reads, oob |-> scan.oob]

\* A lookup in which an exact match does not jump over the test of line 239.
Lookup_ExactNotPreferred(key, tablePtr, offset, flags) ==
    LET scan == IF CharAt(key, 1) = NUL THEN ScanStart
                ELSE ScanTable(key, tablePtr, offset, 0, ScanStart)
    IN  LookupWith(scan, /\ CharAt(key, 1) # NUL
                         /\ ~("TCL_EXACT" \in flags \/ scan.numAbbrev # 1))

\* A lookup that does not test TCL_EXACT.
Lookup_IgnoresExactFlag(key, tablePtr, offset, flags) ==
    LET scan == IF CharAt(key, 1) = NUL THEN ScanStart
                ELSE ScanTable(key, tablePtr, offset, 0, ScanStart)
    IN  LookupWith(scan, /\ CharAt(key, 1) # NUL
                         /\ (scan.exact \/ scan.numAbbrev = 1))

\* A lookup without the test of line 205.
Lookup_NoEmptyTest(key, tablePtr, offset, flags) ==
    LET scan == ScanTable(key, tablePtr, offset, 0, ScanStart)
    IN  LookupWith(scan, \/ scan.exact
                         \/ ~("TCL_EXACT" \in flags \/ scan.numAbbrev # 1))

\* Lines 197-241: the key is not looked up when it is empty; otherwise the
\* table is scanned.  ok: control reaches the label done.
Lookup(key, tablePtr, offset, flags) ==
    LET scan == IF CharAt(key, 1) = NUL
                THEN ScanStart
                ELSE ScanTable(key, tablePtr, offset, 0, ScanStart)
    IN  LookupWith(scan, /\ CharAt(key, 1) # NUL
                         /\ \/ scan.exact
                            \/ ~("TCL_EXACT" \in flags \/ scan.numAbbrev # 1))

----------------------------------------------------------------------------
(* Tcl_GetIndexFromObjStruct, lines 264-288: the error message. *)

\* Tcl_AppendStringsToObj: the strings up to the first NULL argument, appended.
RECURSIVE AppendStrings(_, _)
AppendStrings(obj, args) ==
    IF args = <<>> \/ Head(args) = NULL
    THEN obj
    ELSE AppendStrings(obj \o Head(args), Tail(args))

\* A list with ", " before every entry, the last one too.
RECURSIVE ListEntries_CommaOnly(_, _, _, _)
ListEntries_CommaOnly(entryPtr, offset, count, acc) ==
    IF ~InMem(entryPtr)
    THEN [acc EXCEPT !.oob = TRUE]
    ELSE LET seen == [acc EXCEPT !.reads = @ \cup {entryPtr}]
         IN  IF mem[entryPtr] = NULL
             THEN seen
             ELSE IF ~InMem(NEXT_ENTRY(entryPtr, offset))
             THEN [seen EXCEPT !.oob = TRUE]
             ELSE LET next == NEXT_ENTRY(entryPtr, offset)
                  IN  ListEntries_CommaOnly(next, offset, count + 1,
                         [seen EXCEPT !.text = AppendStrings(@, <<LitComma, mem[entryPtr]>>),
                                      !.reads = @ \cup {next}])

\* The loop of lines 276-287 from address entryPtr; acc holds the text, the
\* slots read and oob.
RECURSIVE ListEntries(_, _, _, _)
ListEntries(entryPtr, offset, count, acc) ==
    IF ~InMem(entryPtr)
    THEN [acc EXCEPT !.oob = TRUE]
    ELSE LET seen == [acc EXCEPT !.reads = @ \cup {entryPtr}]
         IN  IF mem[entryPtr] = NULL
             THEN seen
             ELSE IF ~InMem(NEXT_ENTRY(entryPtr, offset))
             THEN [seen EXCEPT !.oob = TRUE]
             ELSE LET next == NEXT_ENTRY(entryPtr, offset)
                      sep == IF mem[next] = NULL
                             THEN (IF count > 0 THEN LitCommaOr ELSE LitOr)
                             ELSE LitComma
                  IN  ListEntries(next, offset, count + 1,
                         [seen EXCEPT !.text = AppendStrings(@, <<sep, mem[entryPtr]>>),
                                      !.reads = @ \cup {next}])

\* A message that says "ambiguous" as soon as one abbreviation was found.
ErrorMessage_AnyAbbrev(key, tablePtr, offset, msg, numAbbrev) ==
    LET head == AppendStrings(<<>>,
                    <<IF numAbbrev > 0 THEN LitAmbiguous ELSE LitBad, msg, LitQuote,
                      key, LitMustBe, STRING_AT(tablePtr, offset, 0)>>)
    IN  ListEntries(NEXT_ENTRY(tablePtr, offset), offset, 0,
                    [text |-> head, reads |-> {tablePtr}, oob |-> FALSE])

\* Lines 271-287: the text left in the interpreter's result.
ErrorMessage(key, tablePtr, offset, msg, numAbbrev) ==
    LET head == AppendStrings(<<>>,
                    <<IF numAbbrev > 1 THEN LitAmbiguous ELSE LitBad, msg, LitQuote,
                      key, LitMustBe, STRING_AT(tablePtr, offset, 0)>>)
    IN  ListEntries(NEXT_ENTRY(tablePtr, offset), offset, 0,
                    [text |-> head, reads |-> {tablePtr}, oob |-> FALSE])

----------------------------------------------------------------------------
(* The objects. *)

\* The record an "index" object owns.
RepOf(o) == heap[internalRep[o]]

\* A string taken from the table as if its entries were char pointers in a row.
UpdateStringOfIndex_NoStride(o) ==
    STRING_AT(RepOf(o).tablePtr, SizeofCharPtr, RepOf(o).index)

\* UpdateStringOfIndex: the bytes it stores in the object.
UpdateStringOfIndex(o) == EXPAND_OF(RepOf(o))

\* Tcl_GetStringFromObj: the string form, made by the type's updateStringProc
\* when the object holds none.
GetStringFromObj(o) == IF bytes[o] = NULL THEN UpdateStringOfIndex(o) ELSE bytes[o]

\* The table slots Tcl_GetStringFromObj reads: the entry of the object's
\* record (line 348) when the string is made, none otherwise.
StringReads(o) ==
    IF bytes[o] = NULL
    THEN { AddrOf(RepOf(o).tablePtr, RepOf(o).offset, RepOf(o).index) }
    ELSE {}

\* ckalloc(sizeof(IndexRep)): an address not in use.
HeapFull == \A a \in Addrs : heap[a] # FREE
Ckalloc == CHOOSE a \in Addrs : heap[a] = FREE /\ \A b \in Addrs : b < a => heap[b] # FREE

\* A cache test that compares the offset with the wrong field of the record.
Cached_FieldsSwapped(o, tablePtr, offset) ==
    /\ typePtr[o] = IndexType
    /\ RepOf(o).tablePtr = tablePtr
    /\ RepOf(o).index = offset

\* The test of lines 184-186 (and 113-120): the object holds a cached result
\* of a lookup in this table.
Cached(o, tablePtr, offset) ==
    /\ typePtr[o] = IndexType
    /\ RepOf(o).tablePtr = tablePtr
    /\ RepOf(o).offset = offset

\* Tcl_GetIndexFromObjStruct as a function of the state and its arguments: the
\* return code, *indexPtr, the table slots read (those read to make the string of the object
\* among them), the number of IndexRep records allocated, and
\* the fields it leaves behind.  interp is FALSE for a NULL interpreter.
GetIndexFromObjStruct(interp, o, tablePtr, offset, msg, flags) ==
    LET same == [bytes |-> bytes, typePtr |-> typePtr, internalRep |-> internalRep,
                 heap |-> heap, result |-> result, oob |-> FALSE, full |-> FALSE]
    IN  IF Cached(o, tablePtr, offset)
        THEN same @@ [code |-> "TCL_OK", index |-> RepOf(o).index,
                      reads |-> {}, nalloc |-> 0]
        ELSE
        LET key == GetStringFromObj(o)
            made == StringReads(o)
            withKey == [same EXCEPT !.bytes = [bytes EXCEPT ![o] = key]]
            found == Lookup(key, tablePtr, offset, flags)
            indexRep == [tablePtr |-> tablePtr, offset |-> offset, index |-> found.index]
        IN  IF found.oob
            THEN [withKey EXCEPT !.oob = TRUE]
                    @@ [code |-> "TCL_ERROR", index |-> -1,
                        reads |-> made \cup found.reads, nalloc |-> 0]
            ELSE IF found.ok
            THEN IF typePtr[o] = IndexType
                 THEN [withKey EXCEPT !.heap = [heap EXCEPT ![internalRep[o]] = indexRep]]
                        @@ [code |-> "TCL_OK", index |-> found.index,
                            reads |-> made \cup found.reads, nalloc |-> 0]
                 ELSE IF HeapFull
                 THEN [withKey EXCEPT !.full = TRUE]
                        @@ [code |-> "TCL_OK", index |-> found.index,
                            reads |-> made \cup found.reads, nalloc |-> 1]
                 ELSE [withKey EXCEPT !.heap = [heap EXCEPT ![Ckalloc] = indexRep],
                                      !.internalRep = [internalRep EXCEPT ![o] = Ckalloc],
                                      !.typePtr = [typePtr EXCEPT ![o] = IndexType]]
                        @@ [code |-> "TCL_OK", index |-> found.index,
                            reads |-> made \cup found.reads, nalloc |-> 1]
            ELSE IF interp
            THEN LET err == ErrorMessage(key, tablePtr, offset, msg, found.numAbbrev)
                 IN  [withKey EXCEPT !.result = err.text, !.oob = err.oob]
                        @@ [code |-> "TCL_ERROR", index |-> -1,
                            reads |-> made \cup found.reads \cup err.reads, nalloc |-> 0]
            ELSE withKey @@ [code |-> "TCL_ERROR", index |-> -1,
                             reads |-> made \cup found.reads, nalloc |-> 0]

\* A cache test before the call that does not look at the offset.
GetIndexFromObj_NoOffsetTest(interp, o, tablePtr, msg, flags) ==
    IF /\ typePtr[o] = IndexType
       /\ RepOf(o).tablePtr = tablePtr
    THEN [bytes |-> bytes, typePtr |-> typePtr, internalRep |-> internalRep,
          heap |-> heap, result |-> result, oob |-> FALSE, full |-> FALSE,
          code |-> "TCL_OK", index |-> RepOf(o).index, reads |-> {}, nalloc |-> 0]
    ELSE GetIndexFromObjStruct(interp, o, tablePtr, SizeofCharPtr, msg, flags)

\* A lookup that frees the record of the object when it fails.
GetIndexFromObj_ErrorFreesRecord(interp, o, tablePtr, msg, flags) ==
    IF /\ typePtr[o] = IndexType
       /\ RepOf(o).tablePtr = tablePtr
       /\ RepOf(o).offset = SizeofCharPtr
    THEN [bytes |-> bytes, typePtr |-> typePtr, internalRep |-> internalRep,
          heap |-> heap, result |-> result, oob |-> FALSE, full |-> FALSE,
          code |-> "TCL_OK", index |-> RepOf(o).index, reads |-> {}, nalloc |-> 0]
    ELSE LET out == GetIndexFromObjStruct(interp, o, tablePtr, SizeofCharPtr, msg, flags)
         IN  IF out.code = "TCL_ERROR" /\ typePtr[o] = IndexType
             THEN [out EXCEPT !.typePtr = [typePtr EXCEPT ![o] = "none"],
                              !.internalRep = [internalRep EXCEPT ![o] = 0],
                              !.heap = [heap EXCEPT ![internalRep[o]] = FREE]]
             ELSE out

\* Tcl_GetIndexFromObj: the same for a table of char pointers, with the cache
\* test done before the call.
GetIndexFromObj(interp, o, tablePtr, msg, flags) ==
    IF /\ typePtr[o] = IndexType
       /\ RepOf(o).tablePtr = tablePtr
       /\ RepOf(o).offset = SizeofCharPtr
    THEN [bytes |-> bytes, typePtr |-> typePtr, internalRep |-> internalRep,
          heap |-> heap, result |-> result, oob |-> FALSE, full |-> FALSE,
          code |-> "TCL_OK", index |-> RepOf(o).index, reads |-> {}, nalloc |-> 0]
    ELSE GetIndexFromObjStruct(interp, o, tablePtr, SizeofCharPtr, msg, flags)

\* A duplicate that points to the record of its source.
DupIndex_SharesRecord(src, dup) ==
    [heap |-> heap,
     internalRep |-> [internalRep EXCEPT ![dup] = internalRep[src]],
     typePtr |-> [typePtr EXCEPT ![dup] = IndexType]]

\* A copy that takes the table for one of char pointers.
DupIndex_DropsOffset(src, dup) ==
    [heap |-> [heap EXCEPT ![Ckalloc] = [RepOf(src) EXCEPT !.offset = SizeofCharPtr]],
     internalRep |-> [internalRep EXCEPT ![dup] = Ckalloc],
     typePtr |-> [typePtr EXCEPT ![dup] = IndexType]]

\* DupIndex: the record of srcPtr copied into a new one, which dupPtr owns.
DupIndex(src, dup) ==
    [heap |-> [heap EXCEPT ![Ckalloc] = RepOf(src)],
     internalRep |-> [internalRep EXCEPT ![dup] = Ckalloc],
     typePtr |-> [typePtr EXCEPT ![dup] = IndexType]]

\* FreeIndex: the record of objPtr given back.
FreeIndex(o) == [heap EXCEPT ![internalRep[o]] = FREE]

\* A conversion that reports success.
SetIndexFromAny_ReturnsOk(o) ==
    [code |-> "TCL_OK", result |-> LitCantConvert,
     typePtr |-> typePtr, internalRep |-> internalRep, heap |-> heap]

\* SetIndexFromAny: the return code and the interpreter's result; the object
\* is not touched.
SetIndexFromAny(o) ==
    [code |-> "TCL_ERROR", result |-> LitCantConvert,
     typePtr |-> typePtr, internalRep |-> internalRep, heap |-> heap]

----------------------------------------------------------------------------
(* The memory and the inputs of the calls. *)

\* The tables of the callers: {ab, ac, b} at 1, read with offset 1 and, as
\* {ab, b, ac}, with offset 2; {ac, b} at 2 and again at 5; no entry at 4.
FixedMem == << <<"a","b">>, <<"a","c">>, <<"b">>, NULL, <<"a","c">>, <<"b">>, NULL >>

Offsets == {SizeofCharPtr, SizeofCharPtr + SizeofCharPtr}

\* A table ends with a NULL entry.
RECURSIVE Terminated(_, _)
Terminated(entryPtr, offset) ==
    /\ InMem(entryPtr)
    /\ \/ mem[entryPtr] = NULL
       \/ Terminated(NEXT_ENTRY(entryPtr, offset), offset)

\* The tables of char pointers the callers pass to Tcl_GetIndexFromObj, and
\* the tables embedded in an array of larger records (offset 2) they pass to
\* Tcl_GetIndexFromObjStruct.
TablePtrs == {1, 5}
StructTables == {<<1, SizeofCharPtr + SizeofCharPtr>>}

Keys == { <<>>, <<"a">>, <<"b">> }

Labels == { <<"o","p">> }

FlagSets == { {}, {"TCL_EXACT"} }

NoCall == [op |-> "none", obj |-> "", tablePtr |-> 0, offset |-> 0, msg |-> <<>>,
           flags |-> {}, interp |-> FALSE, code |-> "", index |-> -1,
           reads |-> {}, nalloc |-> 0]

Init ==
    /\ mem = FixedMem
    /\ live = [o \in Objs |-> FALSE]
    /\ bytes = [o \in Objs |-> NULL]
    /\ typePtr = [o \in Objs |-> "none"]
    /\ internalRep = [o \in Objs |-> 0]
    /\ heap = [a \in Addrs |-> FREE]
    /\ result = <<>>
    /\ ret = NoCall
    /\ typed = [o \in Objs |-> NULL]

----------------------------------------------------------------------------
(* The calls. *)

\* The state a lookup leaves behind.
Apply(op, out, interp, o, tablePtr, offset, msg, flags) ==
    /\ ~out.oob
    /\ ~out.full
    /\ bytes' = out.bytes
    /\ typePtr' = out.typePtr
    /\ internalRep' = out.internalRep
    /\ heap' = out.heap
    /\ result' = out.result
    /\ ret' = [op |-> op, obj |-> o, tablePtr |-> tablePtr, offset |-> offset,
               msg |-> msg, flags |-> flags, interp |-> interp, code |-> out.code,
               index |-> out.index, reads |-> out.reads, nalloc |-> out.nalloc]
    /\ UNCHANGED <<mem, live, typed>>

Tcl_GetIndexFromObjStruct(interp, o, tablePtr, offset, msg, flags) ==
    /\ live[o]
    /\ Terminated(tablePtr, offset)
    /\ Apply("Tcl_GetIndexFromObjStruct",
             GetIndexFromObjStruct(interp, o, tablePtr, offset, msg, flags),
             interp, o, tablePtr, offset, msg, flags)

Tcl_GetIndexFromObj(interp, o, tablePtr, msg, flags) ==
    /\ live[o]
    /\ Terminated(tablePtr, SizeofCharPtr)
    /\ Apply("Tcl_GetIndexFromObj",
             GetIndexFromObj(interp, o, tablePtr, msg, flags),
             interp, o, tablePtr, SizeofCharPtr, msg, flags)

\* The updateStringProc of the type, called by Tcl_GetString on an object
\* without a string form.
UpdateString(o) ==
    /\ live[o]
    /\ typePtr[o] = IndexType
    /\ bytes[o] = NULL
    /\ bytes' = [bytes EXCEPT ![o] = UpdateStringOfIndex(o)]
    /\ ret' = [NoCall EXCEPT !.op = "UpdateStringOfIndex", !.obj = o,
                             !.reads = StringReads(o)]
    /\ UNCHANGED <<mem, live, typePtr, internalRep, heap, result, typed>>

\* The setFromAnyProc of the type, called with an interpreter: line 317 hands
\* interp to Tcl_SetObjResult without testing it.
SetFromAny(o) ==
    /\ live[o]
    /\ LET out == SetIndexFromAny(o)
       IN  /\ result' = out.result
           /\ typePtr' = out.typePtr
           /\ internalRep' = out.internalRep
           /\ heap' = out.heap
           /\ ret' = [NoCall EXCEPT !.op = "SetIndexFromAny", !.obj = o,
                                    !.interp = TRUE, !.code = out.code]
    /\ UNCHANGED <<mem, live, bytes, typed>>

\* Tcl_NewStringObj: a new object with a string form only.
NewStringObj(o, s) ==
    /\ ~live[o]
    /\ live' = [live EXCEPT ![o] = TRUE]
    /\ bytes' = [bytes EXCEPT ![o] = s]
    /\ typed' = [typed EXCEPT ![o] = s]
    /\ typePtr' = [typePtr EXCEPT ![o] = "none"]
    /\ ret' = [NoCall EXCEPT !.op = "Tcl_NewStringObj", !.obj = o]
    /\ UNCHANGED <<mem, internalRep, heap, result>>

\* Tcl_DuplicateObj: a new object with the string form of src and, through
\* the dupIntRepProc of its type, a copy of its internal representation.
DuplicateObj(src, dup) ==
    /\ live[src]
    /\ ~live[dup]
    /\ live' = [live EXCEPT ![dup] = TRUE]
    /\ bytes' = [bytes EXCEPT ![dup] = bytes[src]]
    /\ typed' = [typed EXCEPT ![dup] = typed[src]]
    /\ IF typePtr[src] = IndexType
       THEN /\ ~HeapFull
            /\ heap' = DupIndex(src, dup).heap
            /\ internalRep' = DupIndex(src, dup).internalRep
            /\ typePtr' = DupIndex(src, dup).typePtr
            /\ ret' = [NoCall EXCEPT !.op = "DupIndex", !.obj = dup, !.nalloc = 1]
       ELSE /\ typePtr' = [typePtr EXCEPT ![dup] = typePtr[src]]
            /\ ret' = [NoCall EXCEPT !.op = "Tcl_DuplicateObj", !.obj = dup]
            /\ UNCHANGED <<heap, internalRep>>
    /\ UNCHANGED <<mem, result>>

\* TclFreeIntRep followed by a conversion to another type, or to none: the
\* freeIntRepProc of the type releases the record.
FreeIntRep(o, newType) ==
    /\ live[o]
    /\ bytes[o] # NULL
    /\ typePtr[o] # newType
    /\ IF typePtr[o] = IndexType
       THEN /\ heap' = FreeIndex(o)
            /\ internalRep' = [internalRep EXCEPT ![o] = 0]
            /\ ret' = [NoCall EXCEPT !.op = "FreeIndex", !.obj = o]
       ELSE /\ ret' = [NoCall EXCEPT !.op = "TclFreeIntRep", !.obj = o]
            /\ UNCHANGED <<heap, internalRep>>
    /\ typePtr' = [typePtr EXCEPT ![o] = newType]
    /\ UNCHANGED <<mem, live, bytes, result, typed>>

\* TclFreeObj: the object and what it owns are released.
FreeObj(o) ==
    /\ live[o]
    /\ IF typePtr[o] = IndexType
       THEN /\ heap' = FreeIndex(o)
            /\ ret' = [NoCall EXCEPT !.op = "FreeIndex", !.obj = o]
       ELSE /\ ret' = [NoCall EXCEPT !.op = "TclFreeObj", !.obj = o]
            /\ UNCHANGED heap
    /\ live' = [live EXCEPT ![o] = FALSE]
    /\ bytes' = [bytes EXCEPT ![o] = NULL]
    /\ typed' = [typed EXCEPT ![o] = NULL]
    /\ typePtr' = [typePtr EXCEPT ![o] = "none"]
    /\ internalRep' = [internalRep EXCEPT ![o] = 0]
    /\ UNCHANGED <<mem, result>>

\* Tcl_InvalidateStringRep on an object that has an internal representation.
InvalidateStringRep(o) ==
    /\ live[o]
    /\ typePtr[o] = IndexType
    /\ bytes[o] # NULL
    /\ bytes' = [bytes EXCEPT ![o] = NULL]
    /\ ret' = [NoCall EXCEPT !.op = "Tcl_InvalidateStringRep", !.obj = o]
    /\ UNCHANGED <<mem, live, typePtr, internalRep, heap, result, typed>>

Next ==
    \/ \E o \in Objs, t \in StructTables, m \in Labels, f \in FlagSets, i \in BOOLEAN :
            Tcl_GetIndexFromObjStruct(i, o, t[1], t[2], m, f)
    \/ \E o \in Objs, t \in TablePtrs, m \in Labels, f \in FlagSets, i \in BOOLEAN :
            Tcl_GetIndexFromObj(i, o, t, m, f)
    \/ \E o \in Objs : SetFromAny(o)
    \/ \E o \in Objs, s \in Keys : NewStringObj(o, s)
    \/ \E src \in Objs, dup \in Objs : DuplicateObj(src, dup)
    \/ \E o \in Objs, ty \in {"none", "other"} : FreeIntRep(o, ty)
    \/ \E o \in Objs : FreeObj(o)

Spec == Init /\ [][Next]_vars

\* The same with the string form of an object dropped and made again.
NextString ==
    \/ Next
    \/ \E o \in Objs : InvalidateStringRep(o)
    \/ \E o \in Objs : UpdateString(o)

SpecString == Init /\ [][NextString]_vars

----------------------------------------------------------------------------
(* The lookup as a function of the table and the key: every table of at   *)
(* most MaxEntries distinct strings of at most MaxLen characters, every   *)
(* key of at most MaxLen characters, one call on a new object.            *)

MaxLen == 2
MaxEntries == 3

Alphabet == {"a", "b"}

RECURSIVE StringsUpTo(_)
StringsUpTo(n) ==
    IF n = 0 THEN { <<>> }
    ELSE StringsUpTo(n - 1) \cup
         { Append(s, c) : s \in StringsUpTo(n - 1), c \in Alphabet }

AllStrings == StringsUpTo(MaxLen)

AllTables ==
    { t \in UNION { [1 .. n -> AllStrings] : n \in 1 .. MaxEntries } :
        \A i, j \in DOMAIN t : i # j => t[i] # t[j] }

InitLookup ==
    /\ mem \in { Append(t, NULL) : t \in AllTables }
    /\ live = [o \in Objs |-> o = "v"]
    /\ bytes \in { [o \in Objs |-> IF o = "v" THEN s ELSE NULL] : s \in AllStrings }
    /\ typed = bytes
    /\ typePtr = [o \in Objs |-> "none"]
    /\ internalRep = [o \in Objs |-> 0]
    /\ heap = [a \in Addrs |-> FREE]
    /\ result = <<>>
    /\ ret = NoCall

\* One lookup of the new object, in the table at address 1.
NextLookup ==
    \E m \in Labels, f \in FlagSets, i \in BOOLEAN :
        /\ ret.op = "none"
        /\ Tcl_GetIndexFromObjStruct(i, "v", 1, SizeofCharPtr, m, f)

SpecLookup == InitLookup /\ [][NextLookup]_vars

----------------------------------------------------------------------------
(* The lookup in a table that another table follows in memory: every     *)
(* table of at most two of the strings of Keys, the table with no entry   *)
(* among them, one call on a new object.                                  *)

ShortTables ==
    { t \in UNION { [1 .. n -> Keys] : n \in 0 .. Cardinality(Objs) } :
        \A i, j \in DOMAIN t : i # j => t[i] # t[j] }

InitAdjacent ==
    /\ mem \in { Append(t, NULL) \o Append(u, NULL) : t \in ShortTables, u \in ShortTables }
    /\ live = [o \in Objs |-> o = "v"]
    /\ bytes \in { [o \in Objs |-> IF o = "v" THEN s ELSE NULL] : s \in Keys }
    /\ typed = bytes
    /\ typePtr = [o \in Objs |-> "none"]
    /\ internalRep = [o \in Objs |-> 0]
    /\ heap = [a \in Addrs |-> FREE]
    /\ result = <<>>
    /\ ret = NoCall

SpecAdjacent == InitAdjacent /\ [][NextLookup]_vars

----------------------------------------------------------------------------
(* Tcl_WrongNumArgs, lines 435-582.                                       *)

LitWrongArgs == <<"w","r","o","n","g"," ","#"," ","a","r","g","s",":"," ",
                  "s","h","o","u","l","d"," ","b","e"," ","\"">>
LitOrQuote == <<" ","o","r"," ","\"">>
LitSpace == <<" ">>
LitDQuote == <<"\"">>

\* Lines 452-462: the build does not define AVOID_HACKS_FOR_ITCL, and the
\* first word of the message is not treated as a list element.
AVOID_HACKS_FOR_ITCL == FALSE
MAY_QUOTE_WORD(isFirst) == IF AVOID_HACKS_FOR_ITCL THEN TRUE ELSE ~isFirst

\* Tcl_ConvertCountedElement: the string as an element of a list, in braces
\* when it is empty or holds a space (the strings of the model hold no brace
\* and no backslash).  Tcl_ScanCountedElement: the room the element takes.
NeedsQuoting(s) == s = <<>> \/ \E k \in DOMAIN s : s[k] = " "
ConvertCountedElement(s) == IF NeedsQuoting(s) THEN <<"{">> \o s \o <<"}">> ELSE s
ScanCountedElement(s) == Len(ConvertCountedElement(s))

\* A word that is never made a list element.
AppendElement_NeverQuotes(obj, elementStr, isFirst) ==
    obj \o elementStr

\* Lines 498-507 and 546-555: the word appended, quoted if necessary.
AppendElement(obj, elementStr, isFirst) ==
    LET len == ScanCountedElement(elementStr)
    IN  IF MAY_QUOTE_WORD(isFirst) /\ len # Len(elementStr)
        THEN obj \o ConvertCountedElement(elementStr)
        ELSE obj \o elementStr

\* Lines 491-521: the words of the ensemble's invocation from the i-th on
\* (i from 0), appended to the text of acc; acc holds the text and isFirst.
RECURSIVE SourceWords(_, _, _, _, _)
SourceWords(acc, ensembleRewrite, i, objc, message) ==
    IF ~(i < ensembleRewrite.numRemovedObjs)
    THEN acc
    ELSE LET elementStr == GetStringFromObj(ensembleRewrite.sourceObjs[i + 1])
             word == AppendElement(acc.text, elementStr, acc.isFirst)
             text == IF \/ i < ensembleRewrite.numRemovedObjs - 1
                        \/ objc # 0
                        \/ message # NULL
                     THEN AppendStrings(word, <<LitSpace>>)
                     ELSE word
         IN  SourceWords([text |-> text, isFirst |-> FALSE],
                         ensembleRewrite, i + 1, objc, message)

\* Arguments of index type printed from their string like the others.
RECURSIVE ArgWords_StringForm(_, _, _, _, _)
ArgWords_StringForm(acc, objv, i, objc, message) ==
    IF ~(i < objc)
    THEN acc
    ELSE LET word == AppendElement(acc.text, GetStringFromObj(objv[i + 1]), acc.isFirst)
             text == IF i < objc - 1 \/ message # NULL
                     THEN AppendStrings(word, <<LitSpace>>)
                     ELSE word
         IN  ArgWords_StringForm([text |-> text, isFirst |-> FALSE],
                                 objv, i + 1, objc, message)

\* Lines 530-568: the arguments objv[i], ..., objv[objc-1] (i from 0),
\* appended to the text of acc.
RECURSIVE ArgWords(_, _, _, _, _)
ArgWords(acc, objv, i, objc, message) ==
    IF ~(i < objc)
    THEN acc
    ELSE LET word == IF typePtr[objv[i + 1]] = IndexType
                     THEN AppendStrings(acc.text, <<EXPAND_OF(RepOf(objv[i + 1]))>>)
                     ELSE AppendElement(acc.text, GetStringFromObj(objv[i + 1]),
                                        acc.isFirst)
             text == IF i < objc - 1 \/ message # NULL
                     THEN AppendStrings(word, <<LitSpace>>)
                     ELSE word
         IN  ArgWords([text |-> text, isFirst |-> FALSE], objv, i + 1, objc, message)

\* Lines 464-470: the start of the message.
Seed(iPtr) ==
    IF "INTERP_ALTERNATE_WRONG_ARGS" \in iPtr.flags
    THEN result \o LitOrQuote
    ELSE LitWrongArgs

\* Lines 478-523: the arguments left to print and the text after the words
\* of the ensemble's invocation, if there is one to rewrite with.
Rewrite(acc, objc, objv, message, iPtr) ==
    IF /\ iPtr.ensembleRewrite.sourceObjs # NULL
       /\ objc >= iPtr.ensembleRewrite.numInsertedObjs
    THEN LET n == iPtr.ensembleRewrite.numInsertedObjs
         IN  [objv |-> SubSeq(objv, n + 1, Len(objv)),
              objc |-> objc - n,
              acc |-> SourceWords(acc, iPtr.ensembleRewrite, 0, objc - n, message)]
    ELSE [objv |-> objv, objc |-> objc, acc |-> acc]

\* Lines 576-579: the message argument and the closing quote.
Finish(text, message) ==
    AppendStrings(IF message # NULL THEN AppendStrings(text, <<message>>) ELSE text,
                  <<LitDQuote>>)

\* A message that starts the same with INTERP_ALTERNATE_WRONG_ARGS and
\* without.
WrongNumArgs_PlainSeed(objc, objv, message, iPtr) ==
    LET rw == Rewrite([text |-> LitWrongArgs, isFirst |-> TRUE],
                      objc, objv, message, iPtr)
    IN  Finish(ArgWords(rw.acc, rw.objv, 0, rw.objc, message).text, message)

\* A rewrite that prints the words of the ensemble's invocation and all of
\* the arguments after them.
WrongNumArgs_NothingDropped(objc, objv, message, iPtr) ==
    LET rw == Rewrite([text |-> Seed(iPtr), isFirst |-> TRUE],
                      objc, objv, message, iPtr)
    IN  Finish(ArgWords(rw.acc, objv, 0, objc, message).text, message)

\* Tcl_WrongNumArgs: the text it leaves in the interpreter's result.  iPtr
\* holds the flags and the ensembleRewrite of the interpreter.
WrongNumArgs(objc, objv, message, iPtr) ==
    LET rw == Rewrite([text |-> Seed(iPtr), isFirst |-> TRUE],
                      objc, objv, message, iPtr)
    IN  Finish(ArgWords(rw.acc, rw.objv, 0, rw.objc, message).text, message)

\* The strings of the arguments, the message arguments, and the states of
\* the interpreter: with an ensemble being rewritten or without.
Words == { <<"a">>, <<"a", " ", "b">> }
Messages == { NULL, <<>>, <<"a", "r", "g">> }
ArgLists == { <<>> } \cup { <<o>> : o \in Objs } \cup { <<o, p>> : o, p \in Objs }
NoRewrite == [sourceObjs |-> NULL, numInsertedObjs |-> 0, numRemovedObjs |-> 0]
Rewrites ==
    { r \in [sourceObjs : ArgLists \ { <<>> },
             numInsertedObjs : 1 .. Cardinality(Objs),
             numRemovedObjs : 1 .. Cardinality(Objs)] :
        r.numRemovedObjs <= Len(r.sourceObjs) }
Interps ==
    { [flags |-> f, ensembleRewrite |-> r] :
        f \in { {}, {"INTERP_ALTERNATE_WRONG_ARGS"} }, r \in {NoRewrite} \cup Rewrites }

\* Lines 496 and 545: the strings Tcl_GetStringFromObj leaves in the objects
\* it is called on, the words of the ensemble's invocation that are printed
\* and the arguments printed that are not of index type.
StringsMade(objc, objv, iPtr) ==
    LET rw == iPtr.ensembleRewrite
        rewrites == rw.sourceObjs # NULL /\ objc >= rw.numInsertedObjs
        first == IF rewrites THEN rw.numInsertedObjs + 1 ELSE 1
        asked == (IF rewrites
                  THEN { rw.sourceObjs[k] : k \in 1 .. rw.numRemovedObjs }
                  ELSE {})
                 \cup { objv[k] : k \in { j \in first .. objc :
                                             typePtr[objv[j]] # IndexType } }
    IN  [o \in Objs |-> IF o \in asked THEN GetStringFromObj(o) ELSE bytes[o]]

\* Lines 496, 539 and 545: the table slots read, the entry of every argument
\* printed that is of index type (EXPAND_OF), and the entry read to make the
\* string of a word or of an argument that holds none.
SlotsRead(objc, objv, iPtr) ==
    LET rw == iPtr.ensembleRewrite
        rewrites == rw.sourceObjs # NULL /\ objc >= rw.numInsertedObjs
        first == IF rewrites THEN rw.numInsertedObjs + 1 ELSE 1
        sources == IF rewrites
                   THEN { rw.sourceObjs[k] : k \in 1 .. rw.numRemovedObjs }
                   ELSE {}
        printed == { objv[k] : k \in first .. objc }
    IN  UNION { StringReads(o) : o \in sources }
            \cup UNION { IF typePtr[o] = IndexType
                         THEN { AddrOf(RepOf(o).tablePtr, RepOf(o).offset,
                                       RepOf(o).index) }
                         ELSE StringReads(o) : o \in printed }

Tcl_WrongNumArgs(objc, objv, message, iPtr) ==
    /\ \A k \in DOMAIN objv : live[objv[k]]
    /\ iPtr.ensembleRewrite.sourceObjs # NULL
          => \A k \in DOMAIN iPtr.ensembleRewrite.sourceObjs :
                live[iPtr.ensembleRewrite.sourceObjs[k]]
    /\ result' = WrongNumArgs(objc, objv, message, iPtr)
    /\ bytes' = StringsMade(objc, objv, iPtr)
    /\ ret' = [NoCall EXCEPT !.op = "Tcl_WrongNumArgs", !.interp = TRUE,
                              !.reads = SlotsRead(objc, objv, iPtr)]
                 @@ [objc |-> objc, objv |-> objv, message |-> message,
                     iPtr |-> iPtr, before |-> result]
    /\ UNCHANGED <<mem, live, typePtr, internalRep, heap, typed>>

\* The tables of the callers of Tcl_WrongNumArgs: {"a b", b} at 1 (read with
\* offset 2: {"a b"}) and {ac, b} at 5; no entry at 3 and 4.
ArgMem == << <<"a", " ", "b">>, <<"b">>, NULL, NULL, <<"a", "c">>, <<"b">>, NULL >>

InitWrongArgs ==
    /\ mem = ArgMem
    /\ live = [o \in Objs |-> FALSE]
    /\ bytes = [o \in Objs |-> NULL]
    /\ typePtr = [o \in Objs |-> "none"]
    /\ internalRep = [o \in Objs |-> 0]
    /\ heap = [a \in Addrs |-> FREE]
    /\ result = <<>>
    /\ ret = NoCall
    /\ typed = [o \in Objs |-> NULL]

\* Values are created and looked up in the tables of the memory, and the
\* string of a value of index type is dropped; then Tcl_WrongNumArgs is
\* called once.
NextWrongArgs ==
    \/ \E o \in Objs, s \in Words :
            ret.op # "Tcl_WrongNumArgs" /\ NewStringObj(o, s)
    \/ \E o \in Objs, t \in StructTables, m \in Labels :
            ret.op # "Tcl_WrongNumArgs"
                /\ Tcl_GetIndexFromObjStruct(FALSE, o, t[1], t[2], m, {})
    \/ \E o \in Objs, t \in TablePtrs, m \in Labels :
            ret.op # "Tcl_WrongNumArgs" /\ Tcl_GetIndexFromObj(TRUE, o, t, m, {})
    \/ \E o \in Objs :
            ret.op # "Tcl_WrongNumArgs" /\ InvalidateStringRep(o)
    \/ \E objv \in ArgLists, message \in Messages, iPtr \in Interps :
            ret.op # "Tcl_WrongNumArgs"
                /\ Tcl_WrongNumArgs(Len(objv), objv, message, iPtr)

SpecWrongArgs == InitWrongArgs /\ [][NextWrongArgs]_vars

----------------------------------------------------------------------------
(* What the properties are stated with: a table as the sequence of its    *)
(* entries, and the entries a key equals or abbreviates.                  *)

IsMatch(r) == r.op \in {"Tcl_GetIndexFromObj", "Tcl_GetIndexFromObjStruct"}

\* The entries of the table at tablePtr, up to its NULL entry.
RECURSIVE Entries(_, _)
Entries(tablePtr, offset) ==
    IF mem[tablePtr] = NULL THEN <<>>
    ELSE <<mem[tablePtr]>> \o Entries(tablePtr + offset, offset)

IsPrefix(s, e) == Len(s) <= Len(e) /\ SubSeq(e, 1, Len(s)) = s

\* The positions (from 1) of the entries equal to key, and of those key is a
\* strict prefix of.
ExactAt(key, E) == { i \in DOMAIN E : E[i] = key }
AbbrevAt(key, E) == { i \in DOMAIN E : IsPrefix(key, E[i]) /\ E[i] # key }

Only(S) == CHOOSE x \in S : TRUE

\* What a lookup of key in the table returns when nothing is cached.
RefResult(key, tablePtr, offset, flags) ==
    LET E == Entries(tablePtr, offset)
    IN  IF key = <<>> THEN <<"TCL_ERROR", -1>>
        ELSE IF ExactAt(key, E) # {} THEN <<"TCL_OK", Only(ExactAt(key, E)) - 1>>
        ELSE IF Cardinality(AbbrevAt(key, E)) = 1 /\ "TCL_EXACT" \notin flags
             THEN <<"TCL_OK", Only(AbbrevAt(key, E)) - 1>>
        ELSE <<"TCL_ERROR", -1>>

\* The table, the key and the entries of the last lookup.
LastEntries == Entries(ret.tablePtr, ret.offset)
LastKey == bytes[ret.obj]
LastSlots == { AddrOf(ret.tablePtr, ret.offset, k) : k \in 0 .. Len(LastEntries) }

----------------------------------------------------------------------------
(* C1: when a lookup of a value in a table has succeeded with index i, a   *)
(* lookup of the same value in the same table (same address, same offset)  *)
(* that follows it at once succeeds with i, reads no slot of the table,    *)
(* allocates nothing and leaves the value its record.                      *)
C1_CacheHitIdempotent ==
    [][ ( /\ IsMatch(ret) /\ ret.code = "TCL_OK"
          /\ IsMatch(ret')
          /\ ret'.obj = ret.obj
          /\ ret'.tablePtr = ret.tablePtr
          /\ ret'.offset = ret.offset )
        => ( /\ ret'.code = "TCL_OK"
             /\ ret'.index = ret.index
             /\ ret'.reads = {}
             /\ ret'.nalloc = 0
             /\ typePtr' = typePtr
             /\ internalRep' = internalRep
             /\ heap' = heap ) ]_vars

\* A lookup answered from the cache, of a value that abbreviates its entry.
C1_Witness ==
    /\ IsMatch(ret) /\ ret.code = "TCL_OK" /\ ret.reads = {} /\ ret.nalloc = 0
    /\ typePtr[ret.obj] = IndexType
    /\ LastKey # LastEntries[ret.index + 1]

(* C2: a lookup returns the cached index without a scan only when the     *)
(* record of the value holds the address and the offset of the table      *)
(* supplied; a lookup of a value whose record holds another address or    *)
(* another offset scans the table supplied, and returns what a value with *)
(* the same string and nothing cached gets.                                *)
C2_NoCacheConfusion ==
    [][ IsMatch(ret') =>
        LET o == ret'.obj
            t == ret'.tablePtr
            off == ret'.offset
        IN  /\ (ret'.code = "TCL_OK" /\ ret'.reads = {})
                  => ( /\ typePtr[o] = IndexType
                       /\ RepOf(o).tablePtr = t
                       /\ RepOf(o).offset = off )
            /\ ( /\ typePtr[o] = IndexType
                 /\ (RepOf(o).tablePtr # t \/ RepOf(o).offset # off) )
                  => ( /\ t \in ret'.reads
                       /\ <<ret'.code, ret'.index>>
                             = RefResult(GetStringFromObj(o), t, off, ret'.flags) ) ]_vars

\* A value that held a record of another table (the record is overwritten in
\* place, nothing is allocated) has been looked up by a scan, in a table where
\* its string is at another index than in some other table of the memory.
C2_Witness ==
    /\ IsMatch(ret) /\ ret.code = "TCL_OK" /\ ret.reads # {} /\ ret.nalloc = 0
    /\ \E t \in DOMAIN mem, off \in Offsets :
          /\ <<t, off>> # <<ret.tablePtr, ret.offset>>
          /\ Terminated(t, off)
          /\ \E i \in DOMAIN Entries(t, off) :
                /\ Entries(t, off)[i] = LastKey
                /\ i # ret.index + 1

(* C3: a lookup with TCL_EXACT succeeds only when the string of the value  *)
(* is equal to an entry of the table supplied, whatever lookups of the     *)
(* value came before.                                                      *)
C3_ExactNeverAbbreviates ==
    (IsMatch(ret) /\ "TCL_EXACT" \in ret.flags /\ ret.code = "TCL_OK")
        => ExactAt(LastKey, LastEntries) # {}

(* C4, as stated: for every table of distinct entries and every string     *)
(* equal to exactly one entry, a lookup of a new value (TCL_EXACT or not)  *)
(* succeeds with the index of that entry.                                  *)
C4_Original ==
    (IsMatch(ret) /\ Cardinality(ExactAt(LastKey, LastEntries)) = 1)
        => /\ ret.code = "TCL_OK"
           /\ ret.index = Only(ExactAt(LastKey, LastEntries)) - 1

(* C4, amended: for every table of distinct entries and every non-empty    *)
(* string equal to exactly one entry, a lookup of a new value (TCL_EXACT   *)
(* or not) succeeds with the index of that entry, wherever the entries it  *)
(* abbreviates and the entries that are prefixes of it stand.              *)
C4_ExactWins ==
    (IsMatch(ret) /\ LastKey # <<>> /\ Cardinality(ExactAt(LastKey, LastEntries)) = 1)
        => /\ ret.code = "TCL_OK"
           /\ ret.index = Only(ExactAt(LastKey, LastEntries)) - 1

\* The key is found after an entry it abbreviates and after an entry that is
\* a prefix of it.
C4_Witness ==
    /\ IsMatch(ret) /\ ret.code = "TCL_OK" /\ LastKey # <<>>
    /\ LastEntries[ret.index + 1] = LastKey
    /\ \E i, j \in 1 .. ret.index :
          /\ i \in AbbrevAt(LastKey, LastEntries)
          /\ IsPrefix(LastEntries[j], LastKey)

(* C5: for every table in which the non-empty string s is a strict prefix  *)
(* of exactly one entry and a prefix of no other, a lookup of a new value  *)
(* of string s succeeds with the index of that entry without TCL_EXACT,    *)
(* and fails, with an error message that starts with "bad", with it.       *)
C5_UniqueAbbreviation ==
    ( /\ IsMatch(ret) /\ LastKey # <<>>
      /\ Cardinality(AbbrevAt(LastKey, LastEntries)) = 1
      /\ ExactAt(LastKey, LastEntries) = {} )
        => IF "TCL_EXACT" \in ret.flags
           THEN /\ ret.code = "TCL_ERROR"
                /\ typePtr[ret.obj] # IndexType
                /\ ret.interp => IsPrefix(LitBad, result)
           ELSE /\ ret.code = "TCL_OK"
                /\ ret.index = Only(AbbrevAt(LastKey, LastEntries)) - 1

\* A unique abbreviation of an entry that is not the first has been found.
C5_Witness ==
    /\ IsMatch(ret) /\ ret.code = "TCL_OK" /\ ret.index > 0
    /\ LastKey # <<>>
    /\ AbbrevAt(LastKey, LastEntries) = {ret.index + 1}
    /\ ExactAt(LastKey, LastEntries) = {}

(* C6, as stated: for every table in which the string s is a strict prefix *)
(* of two or more entries, a lookup of a new value of string s without     *)
(* TCL_EXACT fails with the "ambiguous" message, unless s is equal to an   *)
(* entry, and then succeeds with the index of that entry.                  *)
C6_Original ==
    ( /\ IsMatch(ret) /\ "TCL_EXACT" \notin ret.flags
      /\ Cardinality(AbbrevAt(LastKey, LastEntries)) >= 2 )
        => IF ExactAt(LastKey, LastEntries) # {}
           THEN /\ ret.code = "TCL_OK"
                /\ ret.index = Only(ExactAt(LastKey, LastEntries)) - 1
           ELSE /\ ret.code = "TCL_ERROR"
                /\ ret.interp => IsPrefix(LitAmbiguous, result)

(* C6, amended: for every table in which the non-empty string s is a       *)
(* strict prefix of two or more entries, a lookup of a new value of string *)
(* s without TCL_EXACT fails with the "ambiguous" message, unless s is     *)
(* equal to an entry, and then succeeds with the index of that entry; the  *)
(* scan goes on after an abbreviation: it reads every entry up to the      *)
(* entry equal to s, or up to the NULL entry when there is none.           *)
C6_Ambiguity ==
    ( /\ IsMatch(ret) /\ "TCL_EXACT" \notin ret.flags /\ LastKey # <<>>
      /\ Cardinality(AbbrevAt(LastKey, LastEntries)) >= 2 )
        => IF ExactAt(LastKey, LastEntries) # {}
           THEN /\ ret.code = "TCL_OK"
                /\ ret.index = Only(ExactAt(LastKey, LastEntries)) - 1
                /\ ret.reads = { AddrOf(ret.tablePtr, ret.offset, k) : k \in 0 .. ret.index }
           ELSE /\ ret.code = "TCL_ERROR"
                /\ typePtr[ret.obj] # IndexType
                /\ ret.reads = LastSlots
                /\ ret.interp => IsPrefix(LitAmbiguous, result)

\* The key abbreviates two entries and is equal to a third that follows them.
C6_Witness ==
    /\ IsMatch(ret) /\ "TCL_EXACT" \notin ret.flags /\ ret.code = "TCL_OK"
    /\ LastKey # <<>>
    /\ LastEntries[ret.index + 1] = LastKey
    /\ Cardinality(AbbrevAt(LastKey, LastEntries) \cap (1 .. ret.index)) >= 2

(* C7: a lookup of a value whose string is empty fails, in every table     *)
(* with at least one entry and with TCL_EXACT or without, with an error    *)
(* message that starts with "bad", and gives the value no record.          *)
C7_EmptyString ==
    (IsMatch(ret) /\ LastKey = <<>> /\ LastEntries # <<>>)
        => /\ ret.code = "TCL_ERROR"
           /\ ret.nalloc = 0
           /\ typePtr[ret.obj] # IndexType
           /\ internalRep[ret.obj] = 0
           /\ ret.interp => IsPrefix(LitBad, result)

\* The empty string has been looked up in a table that holds the empty
\* string and two more entries.
C7_Witness ==
    /\ IsMatch(ret) /\ LastKey = <<>> /\ ret.interp
    /\ ret.code = "TCL_ERROR"
    /\ Len(LastEntries) >= 3
    /\ <<>> \in { LastEntries[i] : i \in DOMAIN LastEntries }

(* C8: the string UpdateStringOfIndex makes for a value that holds a       *)
(* record (table, offset, index) is the entry of that table at that index, *)
(* not the abbreviation the value was created from.                        *)
C8_StringifyCanonical ==
    (ret.op = "UpdateStringOfIndex")
        => LET rep == RepOf(ret.obj)
           IN  /\ rep.index + 1 \in DOMAIN Entries(rep.tablePtr, rep.offset)
               /\ bytes[ret.obj] = Entries(rep.tablePtr, rep.offset)[rep.index + 1]

\* The string has been made again for a value created from an abbreviation.
C8_Witness ==
    /\ ret.op = "UpdateStringOfIndex"
    /\ typed[ret.obj] # bytes[ret.obj]
    /\ IsPrefix(typed[ret.obj], bytes[ret.obj])

(* C9: SetIndexFromAny returns TCL_ERROR on every value and leaves its     *)
(* type and its record as they were; a value gets the index type only in a *)
(* lookup that succeeds or as the duplicate of a value that has it.        *)
C9_NoGenericConversion ==
    [][ /\ (ret'.op = "SetIndexFromAny")
            => ( /\ ret'.code = "TCL_ERROR"
                 /\ result' = LitCantConvert
                 /\ UNCHANGED <<bytes, typePtr, internalRep, heap>> )
        /\ \A o \in Objs :
            (typePtr'[o] = IndexType /\ typePtr[o] # IndexType)
               => \/ IsMatch(ret') /\ ret'.obj = o /\ ret'.code = "TCL_OK"
                  \/ /\ ret'.op = "DupIndex" /\ ret'.obj = o
                     /\ \E src \in Objs \ {o} :
                           /\ typePtr[src] = IndexType
                           /\ heap'[internalRep'[o]] = RepOf(src) ]_vars

\* SetIndexFromAny has been called on a value that holds a record.
C9_Witness ==
    /\ ret.op = "SetIndexFromAny"
    /\ ret.code = "TCL_ERROR"
    /\ typePtr[ret.obj] = IndexType

(* C10: the error message of a lookup starts with "ambiguous" when the     *)
(* string, not empty, is a strict prefix of more than one entry and equal  *)
(* to none, and with "bad" in every other failure; the label and the       *)
(* string of the value, as it is, follow.                                  *)
C10_ErrorKind ==
    (IsMatch(ret) /\ ret.code = "TCL_ERROR" /\ ret.interp)
        => LET amb == /\ LastKey # <<>>
                      /\ Cardinality(AbbrevAt(LastKey, LastEntries)) > 1
                      /\ ExactAt(LastKey, LastEntries) = {}
               kind == IF amb THEN LitAmbiguous ELSE LitBad
           IN  IsPrefix(kind \o ret.msg \o LitQuote \o LastKey \o LitMustBe, result)

\* A failure with one abbreviation under TCL_EXACT: the message says "bad".
C10_Witness ==
    /\ IsMatch(ret) /\ ret.code = "TCL_ERROR" /\ ret.interp
    /\ "TCL_EXACT" \in ret.flags
    /\ LastKey # <<>>
    /\ Cardinality(AbbrevAt(LastKey, LastEntries)) = 1
    /\ IsPrefix(LitBad, result)

\* The entries E[i], E[i+1], ... of a list of n = Len(E) entries as the
\* message shows them: ", " before an entry that is not the last, " or "
\* before the last of two and ", or " before the last of three or more.
RECURSIVE ListFrom(_, _)
ListFrom(E, i) ==
    IF i > Len(E) THEN <<>>
    ELSE (IF i = 1 THEN <<>>
          ELSE IF i < Len(E) THEN LitComma
          ELSE IF Len(E) = 2 THEN LitOr
          ELSE LitCommaOr) \o E[i] \o ListFrom(E, i + 1)

\* The text of the error message up to and including "must be ".
LastLead ==
    (IF IsPrefix(LitAmbiguous, result) THEN LitAmbiguous ELSE LitBad)
        \o ret.msg \o LitQuote \o LastKey \o LitMustBe

(* C11: the error message of a lookup that fails with an interpreter       *)
(* lists, after "must be ", every entry of the table once and in the order *)
(* of the table: the first entry with nothing before it, every later entry *)
(* but the last after ", ", and the last after " or " (of two entries:     *)
(* "x or y"; of three or more: "x, y, or z").                             *)
C11_ErrorList ==
    (IsMatch(ret) /\ ret.code = "TCL_ERROR" /\ ret.interp /\ LastEntries # <<>>)
        => result = LastLead \o ListFrom(LastEntries, 1)

\* A message that lists three entries, the empty string among them.
C11_Witness ==
    /\ IsMatch(ret) /\ ret.code = "TCL_ERROR" /\ ret.interp
    /\ Len(LastEntries) >= 3
    /\ LastEntries[2] = <<>>
    /\ LastKey # <<>>
    /\ result = LastLead \o LastEntries[1] \o LitComma \o LastEntries[2]
                    \o ListFrom(LastEntries, 3)

----------------------------------------------------------------------------
(* What the properties of Tcl_WrongNumArgs are stated with: the words a   *)
(* call is to print, from the state and the arguments of the call.        *)

IsWrongArgs(r) == r.op = "Tcl_WrongNumArgs"

\* A string as a word of the message: in braces when it needs quoting and
\* is not the first word.
AsWord(s, first) ==
    IF first \/ ~NeedsQuoting(s) THEN s ELSE <<"{">> \o s \o <<"}">>

\* The word for an argument: the entry of its table for a value that holds a
\* record, its string otherwise.
ArgWord(o, first) ==
    IF typePtr[o] = IndexType
    THEN Entries(RepOf(o).tablePtr, RepOf(o).offset)[RepOf(o).index + 1]
    ELSE AsWord(bytes[o], first)

\* The last call rewrites: the interpreter holds the words of an ensemble's
\* invocation and objc is not below the number of inserted arguments.
LastRewrite == ret.iPtr.ensembleRewrite
LastRewrites ==
    /\ LastRewrite.sourceObjs # NULL
    /\ ret.objc >= LastRewrite.numInsertedObjs

\* The arguments the last call is to print, and the words before them.
LastArgs ==
    IF LastRewrites
    THEN SubSeq(ret.objv, LastRewrite.numInsertedObjs + 1, ret.objc)
    ELSE SubSeq(ret.objv, 1, ret.objc)
LastSourceWords ==
    IF LastRewrites
    THEN [k \in 1 .. LastRewrite.numRemovedObjs |->
             AsWord(bytes[LastRewrite.sourceObjs[k]], k = 1)]
    ELSE <<>>
LastWords ==
    LastSourceWords \o
        [k \in 1 .. Len(LastArgs) |-> ArgWord(LastArgs[k], LastSourceWords = <<>> /\ k = 1)]

\* The words of W with one space between them.
RECURSIVE JoinWords(_)
JoinWords(W) ==
    IF W = <<>> THEN <<>>
    ELSE IF Len(W) = 1 THEN W[1]
    ELSE W[1] \o LitSpace \o JoinWords(Tail(W))

LastSeed ==
    IF "INTERP_ALTERNATE_WRONG_ARGS" \in ret.iPtr.flags
    THEN ret.before \o LitOrQuote
    ELSE LitWrongArgs

(* C12: the result of Tcl_WrongNumArgs is the seed, the words with one     *)
(* space between them, the message argument and a closing double quote;    *)
(* the seed is 'wrong # args: should be "' without                         *)
(* INTERP_ALTERNATE_WRONG_ARGS and the result before the call followed by  *)
(* ' or "' with it; a message that is not empty follows the last word      *)
(* after one space.  (What stands between the last word and the quote when *)
(* the message is the empty string is the matter of C13.)                  *)
C12_MessageShape ==
    IsWrongArgs(ret) =>
        LET body == LastSeed \o JoinWords(LastWords)
        IN  IF ret.message = NULL
            THEN result = body \o LitDQuote
            ELSE IF ret.message = <<>>
            THEN result \in { body \o LitDQuote, body \o LitSpace \o LitDQuote }
            ELSE result = body \o (IF LastWords = <<>> THEN <<>> ELSE LitSpace)
                               \o ret.message \o LitDQuote

\* Two words and a message after the text of an error that was in the result.
C12_Witness ==
    /\ IsWrongArgs(ret)
    /\ "INTERP_ALTERNATE_WRONG_ARGS" \in ret.iPtr.flags
    /\ ret.before # <<>>
    /\ ~LastRewrites
    /\ Len(LastWords) = Cardinality(Objs)
    /\ ret.message \notin {NULL, <<>>}
    /\ result = ret.before \o LitOrQuote \o LastWords[1] \o LitSpace \o LastWords[2]
                    \o LitSpace \o ret.message \o LitDQuote

(* C13: when the message argument is empty (NULL or the empty string) the  *)
(* last word printed is followed at once by the closing double quote; a    *)
(* space follows a word only when another word or a message that is not    *)
(* empty follows it.                                                       *)
C13_NoTrailingSpace ==
    (IsWrongArgs(ret) /\ ret.message \in {NULL, <<>>} /\ LastWords # <<>>)
        => result = LastSeed \o JoinWords(LastWords) \o LitDQuote

\* The text of the message before its word number pos.
LeadOf(pos) ==
    LastSeed \o JoinWords(SubSeq(LastWords, 1, pos - 1))
             \o (IF pos > 1 THEN LitSpace ELSE <<>>)

(* C14: an argument that holds a record (table, offset, index) when        *)
(* Tcl_WrongNumArgs prints it is printed as the entry of that table at     *)
(* that index, not as its string, and without quoting: the entry stands    *)
(* as it is between the text before it and a space or the closing quote.   *)
(* The record is the one the last lookup of the value left.                *)
C14_CanonicalKeyword ==
    IsWrongArgs(ret) =>
        \A k \in DOMAIN LastArgs :
            typePtr[LastArgs[k]] = IndexType
                => LET rep == RepOf(LastArgs[k])
                       entry == Entries(rep.tablePtr, rep.offset)[rep.index + 1]
                       text == LeadOf(Len(LastSourceWords) + k) \o entry
                   IN  /\ IsPrefix(text, result)
                       /\ Len(result) > Len(text)
                       /\ result[Len(text) + 1] \in {" ", "\""}

\* Two values created from "a" have been printed after lookups in two
\* tables, one as the entry "a b", without braces, and one as "ac".
C14_Witness ==
    /\ IsWrongArgs(ret)
    /\ ~LastRewrites
    /\ ret.objc = Cardinality(Objs)
    /\ ret.objv[1] # ret.objv[2]
    /\ \A k \in DOMAIN ret.objv :
          /\ typePtr[ret.objv[k]] = IndexType
          /\ bytes[ret.objv[k]] = <<"a">>
    /\ RepOf(ret.objv[1]).tablePtr # RepOf(ret.objv[2]).tablePtr
    /\ NeedsQuoting(EXPAND_OF(RepOf(ret.objv[2])))
    /\ IsPrefix(LastSeed \o EXPAND_OF(RepOf(ret.objv[1])) \o LitSpace
                    \o EXPAND_OF(RepOf(ret.objv[2])), result)

\* The word number k of the last call stands in the message as the text w.
WordIs(k, w) ==
    LET text == LeadOf(k) \o w
    IN  /\ IsPrefix(text, result)
        /\ Len(result) > Len(text)
        /\ result[Len(text) + 1] \in {" ", "\""}

\* The last call has no ensemble to rewrite with.
LastPlain == IsWrongArgs(ret) /\ LastRewrite.sourceObjs = NULL

(* C15, as stated: without an ensemble rewrite, every argument that holds  *)
(* no record and whose string needs list quoting is printed in its quoted  *)
(* form, at every position.                                                *)
C15_Original ==
    LastPlain =>
        \A k \in 1 .. ret.objc :
            (typePtr[ret.objv[k]] # IndexType /\ NeedsQuoting(bytes[ret.objv[k]]))
                => WordIs(k, <<"{">> \o bytes[ret.objv[k]] \o <<"}">>)

(* C15, amended: without an ensemble rewrite, every argument that holds no *)
(* record and whose string needs list quoting is printed in its quoted     *)
(* form at every position but the first; the first argument is printed as  *)
(* its string is, not quoted.                                              *)
C15_Quoting ==
    LastPlain =>
        \A k \in 1 .. ret.objc :
            (typePtr[ret.objv[k]] # IndexType /\ NeedsQuoting(bytes[ret.objv[k]]))
                => IF k = 1
                   THEN WordIs(k, bytes[ret.objv[k]])
                   ELSE WordIs(k, <<"{">> \o bytes[ret.objv[k]] \o <<"}">>)

\* Two arguments of string "a b" have been printed: a b {a b}.
C15_Witness ==
    /\ LastPlain
    /\ ret.objc = Cardinality(Objs)
    /\ \A k \in 1 .. ret.objc :
          typePtr[ret.objv[k]] # IndexType /\ NeedsQuoting(bytes[ret.objv[k]])
    /\ IsPrefix(LastSeed \o bytes[ret.objv[1]] \o LitSpace
                    \o <<"{">> \o bytes[ret.objv[2]] \o <<"}">>, result)

(* C16: when the interpreter holds the words of an ensemble's invocation   *)
(* and objc is at least numInsertedObjs, the words of the message are the  *)
(* first numRemovedObjs of those words, in order, and then the arguments   *)
(* after the first numInsertedObjs; when it holds none, or objc is below   *)
(* numInsertedObjs, the words are all the arguments and nothing else.      *)
C16_RewriteSplicing ==
    IsWrongArgs(ret) =>
        LET rw == ret.iPtr.ensembleRewrite
            n == rw.numInsertedObjs
            source == [k \in 1 .. rw.numRemovedObjs |->
                          AsWord(bytes[rw.sourceObjs[k]], k = 1)]
            spliced == source \o [k \in 1 .. (ret.objc - n) |->
                                     ArgWord(ret.objv[n + k], FALSE)]
            all == [k \in 1 .. ret.objc |-> ArgWord(ret.objv[k], k = 1)]
            words == IF rw.sourceObjs # NULL /\ ret.objc >= n THEN spliced ELSE all
            text == LastSeed \o JoinWords(words)
            end == IF ret.message = NULL THEN <<>> ELSE ret.message
        IN  \/ result = text \o LitDQuote /\ end = <<>>
            \/ result = text \o LitSpace \o end \o LitDQuote /\ ret.message # NULL
            \/ result = text \o end \o LitDQuote /\ words = <<>>

\* One of two arguments was dropped and the first of the two words of the
\* invocation printed before the other; the words differ from the arguments.
C16_Witness ==
    /\ IsWrongArgs(ret)
    /\ LastRewrites
    /\ ret.objc > LastRewrite.numInsertedObjs
    /\ LastRewrite.numRemovedObjs < Len(LastRewrite.sourceObjs)
    /\ bytes[LastRewrite.sourceObjs[1]] # bytes[ret.objv[1]]
    /\ ret.message = NULL
    /\ result = LastSeed \o bytes[LastRewrite.sourceObjs[1]] \o LitSpace
                    \o ArgWord(ret.objv[ret.objc], FALSE) \o LitDQuote

----------------------------------------------------------------------------
(* The records. *)

\* The addresses of the records allocated and not freed, and the values
\* of index type.
Allocated == { a \in Addrs : heap[a] # FREE }
IndexObjs == { o \in Objs : typePtr[o] = IndexType }

\* Every value of index type is live and owns a record, no two the same
\* one, and every record is owned.
Owned ==
    /\ \A o \in IndexObjs : live[o] /\ internalRep[o] \in Allocated
    /\ \A o, p \in IndexObjs : internalRep[o] = internalRep[p] => o = p
    /\ \A a \in Allocated : \E o \in IndexObjs : internalRep[o] = a

(* C17: after any sequence of lookups, duplications and releases, the      *)
(* records allocated are the records of the values of index type, one      *)
(* each; a lookup that succeeds by a scan allocates one record when the    *)
(* value was not of index type and none when it was, and then writes the   *)
(* record the value had; a lookup that fails or is answered from the       *)
(* cache allocates none and leaves the records as they were.               *)
C17_RecordOwnership ==
    [][ /\ Owned'
        /\ IsMatch(ret') =>
              LET o == ret'.obj
                  was == typePtr[o] = IndexType
                  hit == ret'.code = "TCL_OK" /\ ret'.reads = {}
              IN  /\ Cardinality(Allocated') - Cardinality(Allocated) = ret'.nalloc
                  /\ ret'.nalloc = IF ret'.code = "TCL_OK" /\ ~was THEN 1 ELSE 0
                  /\ was => internalRep'[o] = internalRep[o]
                  /\ (ret'.code = "TCL_ERROR" \/ hit) => heap' = heap
                  /\ \A p \in Objs \ {o} :
                        /\ internalRep'[p] = internalRep[p]
                        /\ typePtr[p] = IndexType => heap'[internalRep[p]] = RepOf(p) ]_vars

\* A value and its duplicate hold two records, and the record of one of
\* them has been written again by a lookup in another table.
C17_Witness ==
    /\ IsMatch(ret) /\ ret.code = "TCL_OK" /\ ret.reads # {} /\ ret.nalloc = 0
    /\ IndexObjs = Objs
    /\ Cardinality(Allocated) = Cardinality(Objs)
    /\ \E p \in Objs \ {ret.obj} :
          /\ bytes[p] = bytes[ret.obj]
          /\ RepOf(p).tablePtr # RepOf(ret.obj).tablePtr

(* C18: in every state reached by lookups, duplications and releases of    *)
(* values whose string does not change, the record (table, offset, index)  *)
(* of a value of index type has 0 <= index < the number of entries of the  *)
(* table, and the string of the value is not empty and is equal to the     *)
(* entry at that index or a proper prefix of it.                           *)
C18_CacheValid ==
    \A o \in IndexObjs :
        LET rep == RepOf(o)
            E == Entries(rep.tablePtr, rep.offset)
        IN  /\ 0 <= rep.index /\ rep.index < Len(E)
            /\ bytes[o] # <<>>
            /\ IsPrefix(bytes[o], E[rep.index + 1])

\* One value holds the record of an entry its string abbreviates, another
\* the record of an entry that is not the first of a table read with
\* offset 2.
C18_Witness ==
    \E o \in IndexObjs, p \in IndexObjs :
        /\ bytes[o] # EXPAND_OF(RepOf(o))
        /\ IsPrefix(bytes[o], EXPAND_OF(RepOf(o)))
        /\ RepOf(p).offset # SizeofCharPtr
        /\ RepOf(p).index > 0
        /\ bytes[p] = EXPAND_OF(RepOf(p))

(* C19: a lookup that fails leaves the type of the value and its record    *)
(* (table, offset, index) as they were before the call, so that a lookup   *)
(* in the table of the record that follows it is answered from the cache   *)
(* with the same index; and a lookup that fails without an interpreter     *)
(* leaves the interpreter's result as it was.                              *)
C19_FailureKeepsCache ==
    [][ /\ (IsMatch(ret') /\ ret'.code = "TCL_ERROR")
              => /\ typePtr' = typePtr
                 /\ internalRep' = internalRep
                 /\ heap' = heap
                 /\ ret'.nalloc = 0
                 /\ ~ret'.interp => result' = result
        /\ ( /\ IsMatch(ret) /\ ret.code = "TCL_ERROR"
             /\ typePtr[ret.obj] = IndexType
             /\ IsMatch(ret')
             /\ ret'.obj = ret.obj
             /\ ret'.tablePtr = RepOf(ret.obj).tablePtr
             /\ ret'.offset = RepOf(ret.obj).offset )
              => /\ ret'.code = "TCL_OK"
                 /\ ret'.index = RepOf(ret.obj).index
                 /\ ret'.reads = {}
                 /\ heap' = heap ]_vars

\* A value that holds the record of one table has failed, without an
\* interpreter, in another table, while the result held an earlier message.
C19_Witness ==
    /\ IsMatch(ret) /\ ret.code = "TCL_ERROR" /\ ~ret.interp
    /\ typePtr[ret.obj] = IndexType
    /\ RepOf(ret.obj).tablePtr # ret.tablePtr
    /\ bytes[ret.obj] # EXPAND_OF(RepOf(ret.obj))
    /\ result # <<>>

(* C20: a lookup reads only slots of the table it is given, from entry 0   *)
(* up to and including the NULL entry, and no slot after the NULL entry,   *)
(* whatever the table (the table that holds only the NULL entry among      *)
(* them), the value and the flags, when it succeeds and when it makes an   *)
(* error message.                                                          *)
C20_ReadsInBounds ==
    IsMatch(ret) => ret.reads \subseteq LastSlots

====
